---- MODULE Spec2Model ----
(***************************************************************************)
(* Model of the macro-generated ArrayList of arraylist.h.                  *)
(*                                                                         *)
(* One list and its single caller are modelled: the struct fields len, cap *)
(* and data, and the call the caller made last (the function, its          *)
(* arguments, what realloc did, the result code, the caller's output slot  *)
(* and the buffer positions the call read and wrote).  Every generated     *)
(* function is an operator from the list, the call's arguments and the     *)
(* outcome of realloc to all of these; the actions apply the operators.    *)
(* The caller makes a call, holds what it returned, and drops it before    *)
(* the next call.                                                          *)
(***************************************************************************)
EXTENDS Integers, Sequences, FiniteSets, TLC

(* ------------------------------ bounds --------------------------------- *)

\* The caller adds only while len < MaxLen.
MaxLen == 11

\* The caller removes only while len is less than MaxDrop below the largest
\* length the list has had.
MaxDrop == 2

\* The caller stores a value other than Plain only while fewer than MaxMarked
\* elements of the list are such values.
MaxMarked == 2

\* The caller of SpecDeep, which stores Plain elements only, adds only while
\* len < MaxHigh.
MaxHigh == 23

\* Width of size_t in the model: index arithmetic is modulo 2^SizeBits.
SizeBits == 10

\* The element type's values, and the one most elements have.
Values == {1, 2}

Plain == CHOOSE v \in Values : \A w \in Values : v <= w

(* ----------------------------- constants ------------------------------- *)

INITIAL_CAP == 10

\* GROWTH_FACTOR is 1.5 == GROWTH_NUM / GROWTH_DEN.
GROWTH_NUM == 3
GROWTH_DEN == 2

SIZE_MOD == 2 ^ SizeBits
SIZE_MAX == SIZE_MOD - 1

\* The content of a slot that was allocated and never written.
Uninit == 0

Slot == Values \cup {Uninit}

SUCCESS == "SUCCESS"
EMPTY_LIST_ERROR == "EMPTY_LIST_ERROR"
INDEX_OUT_OF_BOUNDS_ERROR == "INDEX_OUT_OF_BOUNDS_ERROR"
MEMORY_ERROR == "MEMORY_ERROR"

ArrayListError == {SUCCESS, EMPTY_LIST_ERROR, INDEX_OUT_OF_BOUNDS_ERROR, MEMORY_ERROR}

VARIABLES
    len,      \* list->len
    cap,      \* list->cap
    data,     \* list->data: the buffer, a function on 0 .. cap-1
    op,       \* the function the caller called last ("none" once dropped)
    index,    \* its index argument (the one a wrapper computed; 0 if it has none)
    element,  \* its element argument
    mem,      \* whether realloc, if the call makes it, returns a buffer
    realloc,  \* what realloc did in it: "none" (not called), "ok" or "fail"
    res,      \* the result code it returned
    ret,      \* the value it returned, for len and is_empty (0 for the others)
    out,      \* the caller's output slot (*out)
    reads,    \* the buffer positions it read
    writes,   \* the buffer positions it wrote
    old,      \* the struct as it was when the call was made
    old_out,  \* the caller's output slot as it was when the call was made
    high,     \* the largest len the list has had
    list,     \* the pointer the caller holds: "null" or "valid"
    live,     \* the allocations that are live: the struct and buffers
    bufgen,   \* which buffer list->data points to
    old_buf,  \* which buffer list->data pointed to when the call was made
    freed,    \* the allocations the last call released, in order
    mallocs,  \* the outcomes of the malloc calls the last call made, in order
    appended  \* the elements the add_last calls of SpecAppend appended, in order

vars == <<len, cap, data, op, index, element, mem, realloc, res, ret, out, reads, writes,
          old, old_out, high, list, live, bufgen, old_buf, freed, mallocs, appended>>

\* The struct as one value.
ArrayList == [len |-> len, cap |-> cap, data |-> data]

(* --------------------------- size_t arithmetic ------------------------- *)

SizeSub(a, b) == (a - b + SIZE_MOD) % SIZE_MOD

SizeAdd(a, b) == (a + b) % SIZE_MOD

\* Mutant: a growth factor of 2.
GrowCap_Doubles(c) == (c * 2) % SIZE_MOD

\* Mutant: the factor truncated to an integer before the product.
GrowCap_FactorTruncated(c) == (c * (GROWTH_NUM \div GROWTH_DEN)) % SIZE_MOD

\* (size_t) (cap * GROWTH_FACTOR): the double product, truncated.
GrowCap(c) == ((c * GROWTH_NUM) \div GROWTH_DEN) % SIZE_MOD

(* ------------------------------ libc ----------------------------------- *)

\* malloc(sizeof(type) * n): a fresh buffer of n slots, none written.
Malloc(n) == [j \in 0 .. n - 1 |-> Uninit]

\* Mutant: a new buffer is allocated and the old content is not copied.
Realloc_NoCopy(d, n) == [j \in 0 .. n - 1 |-> Uninit]

\* realloc(d, sizeof(type) * n) when it succeeds: the old content up to the
\* smaller of the two sizes, the rest not written.
Realloc(d, n) == [j \in 0 .. n - 1 |-> IF j \in DOMAIN d THEN d[j] ELSE Uninit]

\* memmove(&d[dst], &d[src], n * sizeof(type)): the positions read and
\* written, and the buffer afterwards (a position outside the buffer is
\* listed in the reads or writes and is not part of the modelled buffer).
MoveReads(src, n) == {src + k : k \in 0 .. n - 1}

MoveWrites(dst, n) == {dst + k : k \in 0 .. n - 1}

\* Mutant: memcpy copying forwards, element by element, over the overlap.
Memmove_ForwardCopy(d, dst, src, n) ==
    [j \in DOMAIN d |->
        IF j \in MoveWrites(dst, n) /\ (j - dst + src) \in DOMAIN d
        THEN IF dst > src THEN d[src + ((j - dst) % (dst - src))] ELSE d[j - dst + src]
        ELSE d[j]]

Memmove(d, dst, src, n) ==
    [j \in DOMAIN d |->
        IF j \in MoveWrites(dst, n) /\ (j - dst + src) \in DOMAIN d
        THEN d[j - dst + src]
        ELSE d[j]]

(* ---------------------- the generated functions ------------------------ *)

\* What a call returns: the list afterwards, the index it worked on, what
\* realloc did, the result code, the caller's output slot afterwards, and the
\* buffer positions read and written.
Ret(l, i, a, r, o, rd, wr) ==
    [list |-> l, index |-> i, realloc |-> a, res |-> r, out |-> o,
     reads |-> rd, writes |-> wr]

arraylist_create == [len |-> 0, cap |-> INITIAL_CAP, data |-> Malloc(INITIAL_CAP)]

\* The fields of a struct that was not created.
NoList == [len |-> 0, cap |-> 0, data |-> Malloc(0)]

\* The allocations: the struct, and the buffers, told apart by a number.
TheStruct == [kind |-> "list", gen |-> 0]

Buffer(g) == [kind |-> "data", gen |-> g]

\* The buffer an allocation returns: one that is not live (the least such).
FreshGen(lv) ==
    CHOOSE g \in 0 .. Cardinality(lv) :
        /\ Buffer(g) \notin lv
        /\ \A k \in 0 .. g - 1 : Buffer(k) \in lv

\* Mutant: a realloc that succeeds leaves the old buffer live.
ReallocHeap_KeepsOld(lv, g, a) ==
    IF a = "ok"
    THEN [live |-> lv \cup {Buffer(FreshGen(lv))}, bufgen |-> FreshGen(lv),
          freed |-> <<>>]
    ELSE [live |-> lv, bufgen |-> g, freed |-> <<>>]

\* The allocations after arraylist_resize, where realloc did a ("none" when
\* the call made no resize): a realloc that succeeds returns a new buffer,
\* which list->data is set to, and releases the old one; one that fails
\* releases nothing and list->data keeps pointing to the old buffer.
ReallocHeap(lv, g, a) ==
    IF a = "ok"
    THEN [live |-> (lv \cup {Buffer(FreshGen(lv))}) \ {Buffer(g)},
          bufgen |-> FreshGen(lv), freed |-> <<Buffer(g)>>]
    ELSE [live |-> lv, bufgen |-> g, freed |-> <<>>]

\* arraylist_destroy: free(list->data), then free(list); the caller's pointer
\* dangles.
DestroyResult(lv, g) ==
    [list |-> "dangling", live |-> (lv \ {Buffer(g)}) \ {TheStruct},
     freed |-> <<Buffer(g), TheStruct>>]

\* Mutant: the struct is not freed when the buffer cannot be allocated.
CreateResult_NoFree(ok_list, ok_data) ==
    IF ~ok_list
    THEN [list |-> "null", l |-> NoList, live |-> {}, bufgen |-> 0,
          freed |-> <<>>, mallocs |-> <<FALSE>>]
    ELSE IF ~ok_data
    THEN [list |-> "null", l |-> NoList, live |-> {TheStruct}, bufgen |-> 0,
          freed |-> <<>>, mallocs |-> <<TRUE, FALSE>>]
    ELSE [list |-> "valid", l |-> arraylist_create,
          live |-> {TheStruct, Buffer(FreshGen({TheStruct}))},
          bufgen |-> FreshGen({TheStruct}),
          freed |-> <<>>, mallocs |-> <<TRUE, TRUE>>]

\* arraylist_create with its two malloc calls: ok_list and ok_data are
\* whether the malloc of the struct and of the buffer return memory.
CreateResult(ok_list, ok_data) ==
    IF ~ok_list
    THEN [list |-> "null", l |-> NoList, live |-> {}, bufgen |-> 0,
          freed |-> <<>>, mallocs |-> <<FALSE>>]
    ELSE IF ~ok_data
    THEN [list |-> "null", l |-> NoList, live |-> {TheStruct} \ {TheStruct},
          bufgen |-> 0, freed |-> <<TheStruct>>, mallocs |-> <<TRUE, FALSE>>]
    ELSE [list |-> "valid", l |-> arraylist_create,
          live |-> {TheStruct, Buffer(FreshGen({TheStruct}))},
          bufgen |-> FreshGen({TheStruct}),
          freed |-> <<>>, mallocs |-> <<TRUE, TRUE>>]

arraylist_len(l) == l.len

arraylist_is_empty(l) == l.len = 0

\* Mutant: the bounds check comes before the emptiness check.
arraylist_get_BoundsFirst(l, i, o) ==
    IF i >= l.len THEN Ret(l, i, "none", INDEX_OUT_OF_BOUNDS_ERROR, o, {}, {})
    ELSE IF l.len = 0 THEN Ret(l, i, "none", EMPTY_LIST_ERROR, o, {}, {})
    ELSE Ret(l, i, "none", SUCCESS, l.data[i], {i}, {})

\* Mutant: the element is taken out of the list, as remove does.
arraylist_get_Removes(l, i, o) ==
    IF l.len = 0 THEN Ret(l, i, "none", EMPTY_LIST_ERROR, o, {}, {})
    ELSE IF i >= l.len THEN Ret(l, i, "none", INDEX_OUT_OF_BOUNDS_ERROR, o, {}, {})
    ELSE LET n == SizeSub(SizeSub(l.len, i), 1)
         IN  Ret([l EXCEPT !.data = Memmove(l.data, i, i + 1, n),
                           !.len = SizeSub(l.len, 1)],
                 i, "none", SUCCESS, l.data[i],
                 {i} \cup MoveReads(i + 1, n), MoveWrites(i, n))

\* Mutant: the slot is copied to *out before the index is checked.
arraylist_get_OutBeforeBounds(l, i, o) ==
    IF l.len = 0 THEN Ret(l, i, "none", EMPTY_LIST_ERROR, o, {}, {})
    ELSE IF i >= l.len
         THEN Ret(l, i, "none", INDEX_OUT_OF_BOUNDS_ERROR,
                  IF i \in DOMAIN l.data THEN l.data[i] ELSE o, {i}, {})
         ELSE Ret(l, i, "none", SUCCESS, l.data[i], {i}, {})

arraylist_get(l, i, o) ==
    IF l.len = 0 THEN Ret(l, i, "none", EMPTY_LIST_ERROR, o, {}, {})
    ELSE IF i >= l.len THEN Ret(l, i, "none", INDEX_OUT_OF_BOUNDS_ERROR, o, {}, {})
    ELSE Ret(l, i, "none", SUCCESS, l.data[i], {i}, {})

\* Mutant: *out is read after the new element is stored.
arraylist_set_OutAfterStore(l, i, new_element, o) ==
    IF l.len = 0 THEN Ret(l, i, "none", EMPTY_LIST_ERROR, o, {}, {})
    ELSE IF i >= l.len THEN Ret(l, i, "none", INDEX_OUT_OF_BOUNDS_ERROR, o, {}, {})
    ELSE Ret([l EXCEPT !.data[i] = new_element], i, "none", SUCCESS, new_element,
             {i}, {i})

\* Mutant: the index is checked against the bound of add.
arraylist_set_BoundsLikeAdd(l, i, new_element, o) ==
    IF l.len = 0 THEN Ret(l, i, "none", EMPTY_LIST_ERROR, o, {}, {})
    ELSE IF i > l.len THEN Ret(l, i, "none", INDEX_OUT_OF_BOUNDS_ERROR, o, {}, {})
    ELSE IF i \notin DOMAIN l.data THEN Ret(l, i, "none", SUCCESS, Uninit, {i}, {i})
    ELSE Ret([l EXCEPT !.data[i] = new_element], i, "none", SUCCESS, l.data[i],
             {i}, {i})

arraylist_set(l, i, new_element, o) ==
    IF l.len = 0 THEN Ret(l, i, "none", EMPTY_LIST_ERROR, o, {}, {})
    ELSE IF i >= l.len THEN Ret(l, i, "none", INDEX_OUT_OF_BOUNDS_ERROR, o, {}, {})
    ELSE Ret([l EXCEPT !.data[i] = new_element], i, "none", SUCCESS, l.data[i],
             {i}, {i})

arraylist_get_first(l, o) ==
    IF l.len = 0 THEN Ret(l, 0, "none", EMPTY_LIST_ERROR, o, {}, {})
    ELSE Ret(l, 0, "none", SUCCESS, l.data[0], {0}, {})

\* Mutant: the last element is read one slot past the end of the list.
arraylist_get_last_PastEnd(l, o) ==
    IF l.len = 0 THEN Ret(l, 0, "none", EMPTY_LIST_ERROR, o, {}, {})
    ELSE IF l.len \notin DOMAIN l.data
         THEN Ret(l, l.len, "none", SUCCESS, Uninit, {l.len}, {})
         ELSE Ret(l, l.len, "none", SUCCESS, l.data[l.len], {l.len}, {})

arraylist_get_last(l, o) ==
    IF l.len = 0 THEN Ret(l, 0, "none", EMPTY_LIST_ERROR, o, {}, {})
    ELSE Ret(l, l.len - 1, "none", SUCCESS, l.data[l.len - 1], {l.len - 1}, {})

\* Mutant: cap is set before realloc's result is checked.
arraylist_resize_CapFirst(l, new_cap, ok) ==
    IF ~ok THEN [list |-> [l EXCEPT !.cap = new_cap], res |-> MEMORY_ERROR]
    ELSE [list |-> [l EXCEPT !.data = Realloc(l.data, new_cap), !.cap = new_cap],
          res |-> SUCCESS]

\* Mutant: the buffer is given one slot more than asked for.
arraylist_resize_OneMore(l, new_cap, ok) ==
    IF ~ok THEN [list |-> l, res |-> MEMORY_ERROR]
    ELSE [list |-> [l EXCEPT !.data = Realloc(l.data, new_cap + 1), !.cap = new_cap + 1],
          res |-> SUCCESS]

\* ok: whether realloc returns a buffer.
arraylist_resize(l, new_cap, ok) ==
    IF ~ok THEN [list |-> l, res |-> MEMORY_ERROR]
    ELSE [list |-> [l EXCEPT !.data = Realloc(l.data, new_cap), !.cap = new_cap],
          res |-> SUCCESS]

\* Mutant: the element is stored before the elements are moved.
AddShift_StoreFirst(l, i, e) ==
    LET n == SizeSub(l.len, i)
        stored == IF i \in DOMAIN l.data THEN [l.data EXCEPT ![i] = e] ELSE l.data
        moved == Memmove(stored, i + 1, i, n)
    IN  [list |-> [l EXCEPT !.data = moved, !.len = SizeAdd(l.len, 1)],
         reads |-> MoveReads(i, n),
         writes |-> MoveWrites(i + 1, n) \cup {i}]

\* The tail of arraylist_add, after the bounds check and the resize: the
\* memmove, the store of the element and the increment of len.
AddShift(l, i, e) ==
    LET n == SizeSub(l.len, i)
        moved == Memmove(l.data, i + 1, i, n)
        stored == IF i \in DOMAIN moved THEN [moved EXCEPT ![i] = e] ELSE moved
    IN  [list |-> [l EXCEPT !.data = stored, !.len = SizeAdd(l.len, 1)],
         reads |-> MoveReads(i, n),
         writes |-> MoveWrites(i + 1, n) \cup {i}]

\* Mutant: the bounds check of get, index >= len, is used.
arraylist_add_BoundsLikeGet(l, i, e, ok, o) ==
    IF i >= l.len THEN Ret(l, i, "none", INDEX_OUT_OF_BOUNDS_ERROR, o, {}, {})
    ELSE IF l.len = l.cap
         THEN LET grown == arraylist_resize(l, GrowCap(l.cap), ok)
              IN  IF grown.res # SUCCESS
                  THEN Ret(grown.list, i, "fail", grown.res, o, {}, {})
                  ELSE LET s == AddShift(grown.list, i, e)
                       IN  Ret(s.list, i, "ok", SUCCESS, o, s.reads, s.writes)
         ELSE LET s == AddShift(l, i, e)
              IN  Ret(s.list, i, "none", SUCCESS, o, s.reads, s.writes)

\* Mutant: the list is resized before the index is checked.
arraylist_add_ResizeFirst(l, i, e, ok, o) ==
    LET grown == IF l.len = l.cap
                 THEN arraylist_resize(l, GrowCap(l.cap), ok)
                 ELSE [list |-> l, res |-> SUCCESS]
        a == IF l.len # l.cap THEN "none" ELSE IF ok THEN "ok" ELSE "fail"
    IN  IF grown.res # SUCCESS THEN Ret(grown.list, i, a, grown.res, o, {}, {})
        ELSE IF i > l.len
             THEN Ret(grown.list, i, a, INDEX_OUT_OF_BOUNDS_ERROR, o, {}, {})
             ELSE LET s == AddShift(grown.list, i, e)
                  IN  Ret(s.list, i, a, SUCCESS, o, s.reads, s.writes)

\* Mutant: the list grows as soon as the new element fills the buffer.
arraylist_add_GrowsEarly(l, i, e, ok, o) ==
    IF i > l.len THEN Ret(l, i, "none", INDEX_OUT_OF_BOUNDS_ERROR, o, {}, {})
    ELSE IF SizeAdd(l.len, 1) >= l.cap
         THEN LET grown == arraylist_resize(l, GrowCap(l.cap), ok)
              IN  IF grown.res # SUCCESS
                  THEN Ret(grown.list, i, "fail", grown.res, o, {}, {})
                  ELSE LET s == AddShift(grown.list, i, e)
                       IN  Ret(s.list, i, "ok", SUCCESS, o, s.reads, s.writes)
         ELSE LET s == AddShift(l, i, e)
              IN  Ret(s.list, i, "none", SUCCESS, o, s.reads, s.writes)

arraylist_add(l, i, e, ok, o) ==
    IF i > l.len THEN Ret(l, i, "none", INDEX_OUT_OF_BOUNDS_ERROR, o, {}, {})
    ELSE IF l.len = l.cap
         THEN LET grown == arraylist_resize(l, GrowCap(l.cap), ok)
              IN  IF grown.res # SUCCESS
                  THEN Ret(grown.list, i, "fail", grown.res, o, {}, {})
                  ELSE LET s == AddShift(grown.list, i, e)
                       IN  Ret(s.list, i, "ok", SUCCESS, o, s.reads, s.writes)
         ELSE LET s == AddShift(l, i, e)
              IN  Ret(s.list, i, "none", SUCCESS, o, s.reads, s.writes)

arraylist_add_first(l, e, ok, o) == arraylist_add(l, 0, e, ok, o)

arraylist_add_last(l, e, ok, o) == arraylist_add(l, l.len, e, ok, o)

\* Mutant: the emptiness check is missing.
arraylist_remove_NoEmptyCheck(l, i, o) ==
    IF i >= l.len THEN Ret(l, i, "none", INDEX_OUT_OF_BOUNDS_ERROR, o, {}, {})
    ELSE LET n == SizeSub(SizeSub(l.len, i), 1)
         IN  Ret([l EXCEPT !.data = Memmove(l.data, i, i + 1, n),
                           !.len = SizeSub(l.len, 1)],
                 i, "none", SUCCESS, l.data[i],
                 {i} \cup MoveReads(i + 1, n), MoveWrites(i, n))

\* Mutant: *out is read after the elements are moved.
arraylist_remove_OutAfterShift(l, i, o) ==
    IF l.len = 0 THEN Ret(l, i, "none", EMPTY_LIST_ERROR, o, {}, {})
    ELSE IF i >= l.len THEN Ret(l, i, "none", INDEX_OUT_OF_BOUNDS_ERROR, o, {}, {})
    ELSE LET n == SizeSub(SizeSub(l.len, i), 1)
             moved == Memmove(l.data, i, i + 1, n)
         IN  Ret([l EXCEPT !.data = moved, !.len = SizeSub(l.len, 1)],
                 i, "none", SUCCESS, moved[i],
                 {i} \cup MoveReads(i + 1, n), MoveWrites(i, n))

\* Mutant: a removal that brings a grown list back to INITIAL_CAP elements
\* gives the grown part of the buffer back.
arraylist_remove_Shrinks(l, i, o) ==
    IF l.len = 0 THEN Ret(l, i, "none", EMPTY_LIST_ERROR, o, {}, {})
    ELSE IF i >= l.len THEN Ret(l, i, "none", INDEX_OUT_OF_BOUNDS_ERROR, o, {}, {})
    ELSE LET n == SizeSub(SizeSub(l.len, i), 1)
             moved == Memmove(l.data, i, i + 1, n)
             shrink == l.cap > INITIAL_CAP /\ SizeSub(l.len, 1) <= INITIAL_CAP
         IN  Ret([l EXCEPT !.data = IF shrink THEN Realloc(moved, INITIAL_CAP) ELSE moved,
                           !.cap = IF shrink THEN INITIAL_CAP ELSE l.cap,
                           !.len = SizeSub(l.len, 1)],
                 i, IF shrink THEN "ok" ELSE "none", SUCCESS, l.data[i],
                 {i} \cup MoveReads(i + 1, n), MoveWrites(i, n))

\* Mutant: the shift of remove moves one element more than follows index.
arraylist_remove_MovesOneMore(l, i, o) ==
    IF l.len = 0 THEN Ret(l, i, "none", EMPTY_LIST_ERROR, o, {}, {})
    ELSE IF i >= l.len THEN Ret(l, i, "none", INDEX_OUT_OF_BOUNDS_ERROR, o, {}, {})
    ELSE LET n == SizeSub(l.len, i)
         IN  Ret([l EXCEPT !.data = Memmove(l.data, i, i + 1, n),
                           !.len = SizeSub(l.len, 1)],
                 i, "none", SUCCESS, l.data[i],
                 {i} \cup MoveReads(i + 1, n), MoveWrites(i, n))

arraylist_remove(l, i, o) ==
    IF l.len = 0 THEN Ret(l, i, "none", EMPTY_LIST_ERROR, o, {}, {})
    ELSE IF i >= l.len THEN Ret(l, i, "none", INDEX_OUT_OF_BOUNDS_ERROR, o, {}, {})
    ELSE LET n == SizeSub(SizeSub(l.len, i), 1)
         IN  Ret([l EXCEPT !.data = Memmove(l.data, i, i + 1, n),
                           !.len = SizeSub(l.len, 1)],
                 i, "none", SUCCESS, l.data[i],
                 {i} \cup MoveReads(i + 1, n), MoveWrites(i, n))

arraylist_remove_first(l, o) == arraylist_remove(l, 0, o)

arraylist_remove_last(l, o) == arraylist_remove(l, SizeSub(l.len, 1), o)

(* ------------------------------ actions -------------------------------- *)

\* The indices a caller passes: every position of the list, the two just past
\* its end, and the largest size_t.
Indices == (0 .. len + 1) \cup {SIZE_MAX}

\* The outcomes of realloc a call can meet: it is called only by an add that
\* finds the list full.
Outcomes == IF len = cap THEN BOOLEAN ELSE {TRUE}

\* The number of elements of the list other than Plain, and the elements the
\* caller stores.
Marked == Cardinality({j \in 0 .. len - 1 : data[j] # Plain})

Elements == IF Marked < MaxMarked THEN Values ELSE {Plain}

\* The caller holds a list and no result: it may make the next call.
Idle == op = "none" /\ list = "valid"

\* A call that allocates and frees nothing outside realloc.
HeapKept ==
    /\ freed' = <<>>
    /\ mallocs' = <<>>
    /\ old_buf' = bufgen
    /\ UNCHANGED <<list, live, bufgen>>

\* A call in which realloc did a ("none": it was not called).
HeapAfter(a) ==
    LET h == ReallocHeap(live, bufgen, a)
    IN  /\ live' = h.live
        /\ bufgen' = h.bufgen
        /\ freed' = h.freed
        /\ mallocs' = <<>>
        /\ old_buf' = bufgen
        /\ UNCHANGED list

MayAdd == Idle /\ len < MaxLen

MayRemove == Idle /\ high - len < MaxDrop

\* The call `name` with element argument e, made when realloc's outcome would
\* be ok, returned r.
Returned(name, e, ok, r) ==
    /\ len' = r.list.len
    /\ cap' = r.list.cap
    /\ data' = r.list.data
    /\ op' = name
    /\ index' = r.index
    /\ element' = e
    /\ mem' = ok
    /\ realloc' = r.realloc
    /\ res' = r.res
    /\ ret' = 0
    /\ out' = r.out
    /\ reads' = r.reads
    /\ writes' = r.writes
    /\ old' = ArrayList
    /\ old_out' = out
    /\ high' = IF r.list.len > high THEN r.list.len ELSE high
    /\ HeapAfter(r.realloc)

Call(name, e, ok, r) == Returned(name, e, ok, r) /\ UNCHANGED appended

Init ==
    /\ len = arraylist_create.len
    /\ cap = arraylist_create.cap
    /\ data = arraylist_create.data
    /\ op = "create"
    /\ index = 0
    /\ element = Uninit
    /\ mem = TRUE
    /\ realloc = "none"
    /\ res = SUCCESS
    /\ ret = 0
    /\ out = Uninit
    /\ reads = {}
    /\ writes = {}
    /\ old = arraylist_create
    /\ old_out = Uninit
    /\ high = 0
    /\ list = CreateResult(TRUE, TRUE).list
    /\ live = CreateResult(TRUE, TRUE).live
    /\ bufgen = CreateResult(TRUE, TRUE).bufgen
    /\ old_buf = 0
    /\ freed = CreateResult(TRUE, TRUE).freed
    /\ mallocs = CreateResult(TRUE, TRUE).mallocs
    /\ appended = <<>>

\* The caller drops what the last call returned; the output slot it passes to
\* the next call is a local it has not initialised, of any content.
Return ==
    /\ op # "none"
    /\ op' = "none"
    /\ index' = 0
    /\ element' = Uninit
    /\ mem' = TRUE
    /\ realloc' = "none"
    /\ res' = SUCCESS
    /\ ret' = 0
    /\ out' \in Slot
    /\ reads' = {}
    /\ writes' = {}
    /\ old' = ArrayList
    /\ old_out' = out'
    /\ HeapKept
    /\ UNCHANGED <<len, cap, data, high, appended>>

\* The call `name`, which takes the list alone and assigns nothing, returned
\* the value v.
Inspected(name, v) ==
    /\ op' = name
    /\ index' = 0
    /\ element' = Uninit
    /\ mem' = TRUE
    /\ realloc' = "none"
    /\ res' = SUCCESS
    /\ ret' = v
    /\ reads' = {}
    /\ writes' = {}
    /\ old' = ArrayList
    /\ old_out' = out
    /\ HeapKept
    /\ UNCHANGED <<len, cap, data, out, high, appended>>

LenCall ==
    /\ Idle
    /\ Inspected("len", arraylist_len(ArrayList))

IsEmptyCall ==
    /\ Idle
    /\ Inspected("is_empty", arraylist_is_empty(ArrayList))

Get ==
    /\ Idle
    /\ \E i \in Indices : Call("get", Uninit, TRUE, arraylist_get(ArrayList, i, out))

GetFirst ==
    /\ Idle
    /\ Call("get_first", Uninit, TRUE, arraylist_get_first(ArrayList, out))

GetLast ==
    /\ Idle
    /\ Call("get_last", Uninit, TRUE, arraylist_get_last(ArrayList, out))

Set ==
    /\ Idle
    /\ \E i \in Indices, e \in Elements :
           Call("set", e, TRUE, arraylist_set(ArrayList, i, e, out))

Add ==
    /\ MayAdd
    /\ \E i \in Indices, e \in Elements, ok \in Outcomes :
           Call("add", e, ok, arraylist_add(ArrayList, i, e, ok, out))

AddFirst ==
    /\ MayAdd
    /\ \E e \in Elements, ok \in Outcomes :
           Call("add_first", e, ok, arraylist_add_first(ArrayList, e, ok, out))

AddLast ==
    /\ MayAdd
    /\ \E e \in Elements, ok \in Outcomes :
           Call("add_last", e, ok, arraylist_add_last(ArrayList, e, ok, out))

Remove ==
    /\ MayRemove
    /\ \E i \in Indices : Call("remove", Uninit, TRUE, arraylist_remove(ArrayList, i, out))

RemoveFirst ==
    /\ MayRemove
    /\ Call("remove_first", Uninit, TRUE, arraylist_remove_first(ArrayList, out))

RemoveLast ==
    /\ MayRemove
    /\ Call("remove_last", Uninit, TRUE, arraylist_remove_last(ArrayList, out))

Next ==
    \/ Return
    \/ LenCall
    \/ IsEmptyCall
    \/ Get
    \/ GetFirst
    \/ GetLast
    \/ Set
    \/ Add
    \/ AddFirst
    \/ AddLast
    \/ Remove
    \/ RemoveFirst
    \/ RemoveLast

Spec == Init /\ [][Next]_vars

\* A caller that only appends and reads: add_last calls, whose elements it
\* keeps in order, and get calls.
AppendLast ==
    /\ MayAdd
    /\ \E e \in Elements, ok \in Outcomes :
           LET r == arraylist_add_last(ArrayList, e, ok, out)
           IN  /\ Returned("add_last", e, ok, r)
               /\ appended' = IF r.res = SUCCESS THEN Append(appended, e) ELSE appended

NextAppend ==
    \/ Return
    \/ Get
    \/ AppendLast

SpecAppend == Init /\ [][NextAppend]_vars

\* A caller that starts without a list and calls create, again after a
\* failure, with either malloc free to fail.
InitLife ==
    /\ len = NoList.len
    /\ cap = NoList.cap
    /\ data = NoList.data
    /\ op = "none"
    /\ index = 0
    /\ element = Uninit
    /\ mem = TRUE
    /\ realloc = "none"
    /\ res = SUCCESS
    /\ ret = 0
    /\ out = Uninit
    /\ reads = {}
    /\ writes = {}
    /\ old = NoList
    /\ old_out = Uninit
    /\ high = 0
    /\ list = "null"
    /\ live = {}
    /\ bufgen = 0
    /\ old_buf = 0
    /\ freed = <<>>
    /\ mallocs = <<>>
    /\ appended = <<>>

Create ==
    /\ op = "none"
    /\ list = "null"
    /\ \E ok_list, ok_data \in BOOLEAN :
           LET c == CreateResult(ok_list, ok_data)
           IN  /\ list' = c.list
               /\ live' = c.live
               /\ bufgen' = c.bufgen
               /\ old_buf' = bufgen
               /\ freed' = c.freed
               /\ mallocs' = c.mallocs
               /\ len' = c.l.len
               /\ cap' = c.l.cap
               /\ data' = c.l.data
               /\ old' = c.l
    /\ op' = "create"
    /\ index' = 0
    /\ element' = Uninit
    /\ mem' = TRUE
    /\ realloc' = "none"
    /\ res' = SUCCESS
    /\ ret' = 0
    /\ reads' = {}
    /\ writes' = {}
    /\ old_out' = out
    /\ UNCHANGED <<out, high, appended>>

\* The caller destroys the list, once: it makes no call on the pointer
\* afterwards.
Destroy ==
    /\ Idle
    /\ LET d == DestroyResult(live, bufgen)
       IN  /\ list' = d.list
           /\ live' = d.live
           /\ freed' = d.freed
    /\ mallocs' = <<>>
    /\ old_buf' = bufgen
    /\ op' = "destroy"
    /\ index' = 0
    /\ element' = Uninit
    /\ mem' = TRUE
    /\ realloc' = "none"
    /\ res' = SUCCESS
    /\ ret' = 0
    /\ reads' = {}
    /\ writes' = {}
    /\ old' = ArrayList
    /\ old_out' = out
    /\ UNCHANGED <<len, cap, data, out, high, bufgen, appended>>

NextLife ==
    \/ Create
    \/ Destroy
    \/ Next

SpecLife == InitLife /\ [][NextLife]_vars

\* A caller that also calls the generated arraylist_resize itself, which is
\* not static: it asks for capacities from 1 up to INITIAL_CAP that still hold
\* the elements of the list, so the list can be full at a capacity below
\* INITIAL_CAP.  Once an add has written past the end of the buffer the
\* behaviour of the program is undefined and the caller is followed no further.
ResizeCaps == {n \in 1 .. INITIAL_CAP : n >= len}

Sound == len <= cap

Resize ==
    /\ Idle
    /\ Sound
    /\ \E n \in ResizeCaps, ok \in BOOLEAN :
           LET r == arraylist_resize(ArrayList, n, ok)
           IN  Call("resize", Uninit, ok,
                    Ret(r.list, 0, IF ok THEN "ok" ELSE "fail", r.res, out, {}, {}))

NextResize ==
    \/ Return
    \/ Resize
    \/ Sound /\ AddLast
    \/ Sound /\ Get

SpecResize == Init /\ [][NextResize]_vars

\* A caller that stores Plain elements only and lets the list grow through
\* several growth steps: add, remove, set and get at any index.
DeepAdd ==
    /\ Idle
    /\ len < MaxHigh
    /\ \E i \in Indices, ok \in Outcomes :
           Call("add", Plain, ok, arraylist_add(ArrayList, i, Plain, ok, out))

DeepSet ==
    /\ Idle
    /\ \E i \in Indices : Call("set", Plain, TRUE, arraylist_set(ArrayList, i, Plain, out))

NextDeep ==
    \/ Return
    \/ DeepAdd
    \/ DeepSet
    \/ Remove
    \/ Get

SpecDeep == Init /\ [][NextDeep]_vars

(* ------------------------------ claims --------------------------------- *)

\* The last call was one of these functions and has returned.
IsAdd == op \in {"add", "add_first", "add_last"}

IsRemove == op \in {"remove", "remove_first", "remove_last"}

IsGet == op \in {"get", "get_first", "get_last"}

IsSet == op = "set"

\* C1: in every state reachable from create() by any calls, with realloc free
\* to fail at any growth, 0 <= len <= cap and cap >= 10.
C1_LenCapInvariant ==
    /\ 0 <= len
    /\ len <= cap
    /\ cap >= INITIAL_CAP

\* C1's case: an add has grown the full list.
C1_Witness ==
    /\ IsAdd
    /\ realloc = "ok"
    /\ old.len = old.cap
    /\ len = old.len + 1

\* C2: a successful add(index, element) with index <= len puts element at
\* index, keeps every element before index in place, moves every element of
\* [index, len) one position up and increases len by one, with or without a
\* growth.
C2_AddInserts ==
    (IsAdd /\ res = SUCCESS /\ index <= old.len) =>
        /\ len = old.len + 1
        /\ data[index] = element
        /\ \A p \in 0 .. index - 1 : data[p] = old.data[p]
        /\ \A p \in index .. old.len - 1 : data[p + 1] = old.data[p]

\* C2's case: an add in the middle of a full list, which grew, with a marked
\* element on each side of the index.
C2_Witness ==
    /\ op = "add"
    /\ res = SUCCESS
    /\ realloc = "ok"
    /\ index > 0
    /\ index < old.len
    /\ old.data[index - 1] # Plain
    /\ old.data[index] # Plain
    /\ element = Plain

\* C3: a successful remove(index) on a non-empty list with index < len
\* returns the element that was at index, keeps every element before index in
\* place, moves every element of (index, len) one position down and decreases
\* len by one.
C3_RemoveDeletes ==
    (IsRemove /\ res = SUCCESS /\ old.len > 0 /\ index < old.len) =>
        /\ out = old.data[index]
        /\ len = old.len - 1
        /\ \A p \in 0 .. index - 1 : data[p] = old.data[p]
        /\ \A p \in index + 1 .. old.len - 1 : data[p - 1] = old.data[p]

\* C3's case: a remove in the middle of the list, of a marked element between
\* two plain ones.
C3_Witness ==
    /\ op = "remove"
    /\ res = SUCCESS
    /\ index > 0
    /\ index < old.len - 1
    /\ old.data[index] # Plain
    /\ old.data[index - 1] = Plain
    /\ old.data[index + 1] = Plain

\* C4: when get, set, remove or one of their wrappers returns EmptyListError
\* or OutOfBoundsError, or an add returns OutOfBoundsError, len, cap and the
\* elements at [0, len) are what they were before the call.
C4_FailureLeavesList ==
    (\/ (IsGet \/ IsSet \/ IsRemove)
           /\ res \in {EMPTY_LIST_ERROR, INDEX_OUT_OF_BOUNDS_ERROR}
     \/ IsAdd /\ res = INDEX_OUT_OF_BOUNDS_ERROR) =>
        /\ len = old.len
        /\ cap = old.cap
        /\ \A p \in 0 .. old.len - 1 : data[p] = old.data[p]

\* C4's case: an add past the end of a full list was rejected.
C4_Witness ==
    /\ op = "add"
    /\ res = INDEX_OUT_OF_BOUNDS_ERROR
    /\ old.len = old.cap
    /\ mem

\* C5: an add with a valid index on a full list whose realloc fails returns
\* the memory error and leaves len, cap and every element unchanged; the list
\* stays usable: a get, set or remove made next finds the same elements, and
\* the same add made next with a realloc that succeeds inserts the element.
C5_FailedGrowthLeavesList ==
    (IsAdd /\ index <= old.len /\ old.len = old.cap /\ ~mem) =>
        /\ res = MEMORY_ERROR
        /\ len = old.len
        /\ cap = old.cap
        /\ \A p \in 0 .. old.len - 1 :
               /\ data[p] = old.data[p]
               /\ arraylist_get(ArrayList, p, out).res = SUCCESS
               /\ arraylist_get(ArrayList, p, out).out = old.data[p]
               /\ arraylist_set(ArrayList, p, element, out).out = old.data[p]
               /\ arraylist_remove(ArrayList, p, out).out = old.data[p]
        /\ LET a == arraylist_add(ArrayList, index, element, TRUE, out)
           IN  /\ a.res = SUCCESS
               /\ a.list.len = old.len + 1
               /\ a.list.cap > old.cap
               /\ a.list.data[index] = element
               /\ \A p \in 0 .. index - 1 : a.list.data[p] = old.data[p]
               /\ \A p \in index .. old.len - 1 : a.list.data[p + 1] = old.data[p]

\* C5's case: an add in the middle of a full list met a failing realloc.
C5_Witness ==
    /\ op = "add"
    /\ old.len = old.cap
    /\ index > 0
    /\ index < old.len
    /\ ~mem
    /\ realloc = "fail"
    /\ res = MEMORY_ERROR

\* C6: on a list of len 0, freshly created or emptied by removals, get, set
\* and remove with any index, and get_first, get_last, remove_first and
\* remove_last, return EmptyListError, never OutOfBoundsError.
C6_EmptyBeforeBounds ==
    ((IsGet \/ IsSet \/ IsRemove) /\ old.len = 0) => res = EMPTY_LIST_ERROR

\* C6's case: a list emptied by removals was asked for the element at the
\* largest index.
C6_Witness ==
    /\ op = "get"
    /\ old.len = 0
    /\ high > 0
    /\ index = SIZE_MAX
    /\ res = EMPTY_LIST_ERROR

\* C7: remove_last on a list of len 0 returns EmptyListError, reads and writes
\* no buffer slot (none at the index len - 1 computes, the largest size_t),
\* and leaves len at 0 and cap unchanged.
C7_RemoveLastOnEmpty ==
    (op = "remove_last" /\ old.len = 0) =>
        /\ res = EMPTY_LIST_ERROR
        /\ reads = {}
        /\ writes = {}
        /\ len = 0
        /\ cap = old.cap

\* C7's case: remove_last was called on an empty list and passed the wrapped
\* index on.
C7_Witness ==
    /\ op = "remove_last"
    /\ old.len = 0
    /\ index = SIZE_MAX

\* C8: on a list of len L, add(L, v) succeeds when any realloc it needs does,
\* and appends v at position L; add(i, v) with i > L returns OutOfBoundsError;
\* add never returns EmptyListError, L = 0 included.
C8_AddBounds ==
    IsAdd =>
        /\ res # EMPTY_LIST_ERROR
        /\ index > old.len => res = INDEX_OUT_OF_BOUNDS_ERROR
        /\ (index = old.len /\ mem) =>
               /\ res = SUCCESS
               /\ len = old.len + 1
               /\ data[old.len] = element
               /\ \A p \in 0 .. old.len - 1 : data[p] = old.data[p]

\* C8's case: add at index 1 of an empty list.
C8_Witness ==
    /\ op = "add"
    /\ old.len = 0
    /\ index = old.len + 1
    /\ res = INDEX_OUT_OF_BOUNDS_ERROR

\* C9: after n successful add_last calls on a fresh list, with values v_0 ..
\* v_(n-1) and n past the initial capacity, len is n and get(i) returns
\* Success and v_i for every i < n.
C9_AppendReadRoundTrip ==
    /\ len = Len(appended)
    /\ \A i \in 0 .. Len(appended) - 1 :
           /\ arraylist_get(ArrayList, i, out).res = SUCCESS
           /\ arraylist_get(ArrayList, i, out).out = appended[i + 1]
    /\ (op = "get" /\ index < Len(appended)) =>
           /\ res = SUCCESS
           /\ out = appended[index + 1]

\* C9's case: the caller appended past the initial capacity and read back
\* the first element, a marked one.
C9_Witness ==
    /\ Len(appended) > INITIAL_CAP
    /\ op = "get"
    /\ index = 0
    /\ res = SUCCESS
    /\ appended[1] # Plain

\* C10: a successful add(i, v), i <= len, followed at once by remove(i):
\* the remove returns v, and len and the element at every position are what
\* they were before the add.
C10_AddThenRemove ==
    (IsAdd /\ res = SUCCESS /\ index <= old.len) =>
        LET r == arraylist_remove(ArrayList, index, out)
        IN  /\ r.res = SUCCESS
            /\ r.out = element
            /\ r.list.len = old.len
            /\ r.list.cap >= old.cap
            /\ \A p \in 0 .. old.len - 1 : r.list.data[p] = old.data[p]

\* C10's case: an add at the front of a full list, which grew, of a marked
\* element before a plain one.
C10_Witness ==
    /\ op = "add"
    /\ res = SUCCESS
    /\ realloc = "ok"
    /\ index = 0
    /\ element # Plain
    /\ old.data[0] = Plain
    /\ old.data[1] # Plain

\* C11: appending 11 elements to a fresh list, with no allocation failure,
\* succeeds every time; the first 10 appends make no growth, the 11th makes
\* one, from 10 to 15 slots, and get(i) then returns the elements in the
\* order they were appended.
C11_EleventhAppendGrows ==
    /\ (op = "add_last" /\ mem) => res = SUCCESS
    /\ (op = "add_last" /\ old.len < INITIAL_CAP) =>
           /\ realloc = "none"
           /\ cap = INITIAL_CAP
    /\ (op = "add_last" /\ old.len = INITIAL_CAP /\ mem) =>
           /\ realloc = "ok"
           /\ old.cap = 10
           /\ cap = 15
    /\ Len(appended) <= INITIAL_CAP => cap = 10
    /\ Len(appended) = INITIAL_CAP + 1 =>
           /\ len = 11
           /\ cap = 15
           /\ \A i \in 0 .. INITIAL_CAP :
                  /\ arraylist_get(ArrayList, i, out).res = SUCCESS
                  /\ arraylist_get(ArrayList, i, out).out = appended[i + 1]

\* C11's case: the 11th append has returned, after one growth.
C11_Witness ==
    /\ op = "add_last"
    /\ Len(appended) = INITIAL_CAP + 1
    /\ realloc = "ok"
    /\ res = SUCCESS
    /\ appended[INITIAL_CAP + 1] # Plain

\* C12: a successful set(index, new_value) on a non-empty list, index < len,
\* returns the value that was at index, stores new_value there, and leaves
\* len, cap and the element at every other position unchanged.
C12_SetReplaces ==
    (IsSet /\ res = SUCCESS /\ old.len > 0 /\ index < old.len) =>
        /\ out = old.data[index]
        /\ data[index] = element
        /\ len = old.len
        /\ cap = old.cap
        /\ \A p \in (0 .. old.len - 1) \ {index} : data[p] = old.data[p]

\* C12's case: a set in the middle of the list replaced a marked element
\* by a plain one.
C12_Witness ==
    /\ op = "set"
    /\ res = SUCCESS
    /\ index > 0
    /\ index < old.len - 1
    /\ old.data[index] # Plain
    /\ element = Plain

\* C13: get, get_first, get_last, len and is_empty never change the list,
\* successful or not; a successful get(index) returns the element that is at
\* index; is_empty returns true exactly when len returns 0.
C13_ReadsLeaveList ==
    /\ (IsGet \/ op \in {"len", "is_empty"}) =>
           /\ len = old.len
           /\ cap = old.cap
           /\ data = old.data
    /\ (op = "get" /\ res = SUCCESS) =>
           /\ out = old.data[index]
           /\ out = data[index]
    /\ op = "is_empty" => (ret <=> (arraylist_len(ArrayList) = 0))
    /\ op = "len" => ((ret = 0) <=> arraylist_is_empty(ArrayList))

\* C13's case: a get in the middle of the list returned a marked element
\* into a slot that held a plain one.
C13_Witness ==
    /\ op = "get"
    /\ res = SUCCESS
    /\ index > 0
    /\ index < len - 1
    /\ old_out = Plain
    /\ out # Plain

\* C14: every call returns one of the four result codes.  On a non-empty
\* list get, set and remove return INDEX_OUT_OF_BOUNDS_ERROR if and only if
\* index >= len, and SUCCESS otherwise; add returns INDEX_OUT_OF_BOUNDS_ERROR
\* if and only if index > len; MEMORY_ERROR is returned only by add, add_first
\* and add_last, and only when index <= len, len = cap and realloc fails; add
\* never returns EMPTY_LIST_ERROR; add_first, add_last, get_first, get_last,
\* remove_first and remove_last never return INDEX_OUT_OF_BOUNDS_ERROR.
C14_ResultCodes ==
    /\ res \in ArrayListError
    /\ (op \in {"get", "set", "remove"} /\ old.len > 0) =>
           /\ (res = INDEX_OUT_OF_BOUNDS_ERROR) <=> (index >= old.len)
           /\ (res = SUCCESS) <=> (index < old.len)
    /\ op = "add" => ((res = INDEX_OUT_OF_BOUNDS_ERROR) <=> (index > old.len))
    /\ res = MEMORY_ERROR =>
           /\ IsAdd
           /\ index <= old.len
           /\ old.len = old.cap
           /\ realloc = "fail"
           /\ ~mem
    /\ IsAdd => res # EMPTY_LIST_ERROR
    /\ op \in {"add_first", "add_last", "get_first", "get_last",
               "remove_first", "remove_last"} => res # INDEX_OUT_OF_BOUNDS_ERROR

\* C14's case: add_first met a failing realloc on a full list.
C14_Witness ==
    /\ op = "add_first"
    /\ res = MEMORY_ERROR
    /\ old.len = old.cap

\* What a call leaves for its caller to observe: the list, the result code
\* and the slot *out.
Observed == [list |-> ArrayList, res |-> res, out |-> out]

Observable(r) == [list |-> r.list, res |-> r.res, out |-> r.out]

\* C15: in every reachable state, empty or not, add_first(e) behaves as
\* add(0, e), add_last(e) as add(len, e), remove_first as remove(0),
\* remove_last as remove(len - 1), get_first as get(0) and get_last as
\* get(len - 1): same result code, same value in *out, same list afterwards;
\* on an empty list get_last and remove_last return EMPTY_LIST_ERROR.
C15_WrappersArePositional ==
    /\ op = "add_first" =>
           Observed = Observable(arraylist_add(old, 0, element, mem, old_out))
    /\ op = "add_last" =>
           Observed = Observable(arraylist_add(old, old.len, element, mem, old_out))
    /\ op = "remove_first" =>
           Observed = Observable(arraylist_remove(old, 0, old_out))
    /\ op = "remove_last" =>
           Observed = Observable(arraylist_remove(old, SizeSub(old.len, 1), old_out))
    /\ op = "get_first" =>
           Observed = Observable(arraylist_get(old, 0, old_out))
    /\ op = "get_last" =>
           Observed = Observable(arraylist_get(old, SizeSub(old.len, 1), old_out))
    /\ (op \in {"get_last", "remove_last"} /\ old.len = 0) => res = EMPTY_LIST_ERROR

\* C15's case: get_last returned the last element of a list whose last and
\* first elements differ.
C15_Witness ==
    /\ op = "get_last"
    /\ res = SUCCESS
    /\ old.len >= 2
    /\ out # Plain
    /\ old.data[0] = Plain

\* C16: no call, successful or failed, leaves cap smaller than it was before
\* the call, so cap never decreases over a sequence of calls; remove,
\* remove_first and remove_last leave cap exactly as it was, also when they
\* remove the last element of the list.
C16_CapNeverShrinks ==
    /\ cap >= old.cap
    /\ IsRemove => cap = old.cap
    /\ (IsRemove /\ res = SUCCESS /\ len = 0) => cap = old.cap /\ cap >= INITIAL_CAP

\* C16's case: a removal that emptied the list.
C16_Witness ==
    /\ op = "remove_last"
    /\ res = SUCCESS
    /\ old.len = 1
    /\ len = 0

\* A second case of C16: a removal from a list that had grown.
C16_WitnessGrown ==
    /\ IsRemove
    /\ res = SUCCESS
    /\ old.cap > INITIAL_CAP
    /\ len <= INITIAL_CAP

\* C17: create either returns a list with len 0 and cap exactly 10, or fails
\* and returns no list; when the struct is allocated and the buffer is not,
\* the struct is freed before create returns, so a failed create leaves no
\* allocation live.
C17_CreateAllOrNothing ==
    op = "create" =>
        /\ \/ /\ list = "valid"
              /\ len = 0
              /\ cap = 10
              /\ live = {TheStruct, Buffer(bufgen)}
              /\ mallocs = <<TRUE, TRUE>>
           \/ /\ list = "null"
              /\ live = {}
              /\ mallocs \in {<<FALSE>>, <<TRUE, FALSE>>}
        /\ mallocs = <<TRUE, FALSE>> => freed = <<TheStruct>>

\* C17's case: create allocated the struct and could not allocate the buffer.
C17_Witness ==
    /\ op = "create"
    /\ mallocs = <<TRUE, FALSE>>
    /\ list = "null"

\* C18: whenever add finds len = cap, the capacity it requests from resize is
\* at least cap + 1, for every capacity, cap = 1 included; so a growth that
\* succeeds leaves cap at least one larger.
C18_GrowthRequestsMore ==
    (IsAdd /\ index <= old.len /\ old.len = old.cap) =>
        /\ GrowCap(old.cap) >= old.cap + 1
        /\ realloc = "ok" => cap >= old.cap + 1

\* C18's failing case: an add on a full list of capacity 1 asked for
\* capacity 1 again and stored its element past the end of the buffer.
C18_StuckAtOne ==
    /\ op = "add_last"
    /\ old.cap = 1
    /\ old.len = 1
    /\ realloc = "ok"
    /\ res = SUCCESS
    /\ cap = 1
    /\ len = 2
    /\ 1 \in writes

\* C19: the buffer grows only inside add, add_first and add_last, only when
\* the index is valid and len = cap when the call is made, and once in a
\* call; a growth that succeeds sets cap to exactly floor(old cap * 1.5) and
\* keeps every element at its index; an add with len < cap, an add rejected
\* with INDEX_OUT_OF_BOUNDS_ERROR, and every get, set and remove leave cap as
\* it was.
C19_GrowthOnlyInAdd ==
    /\ realloc # "none" =>
           /\ IsAdd
           /\ index <= old.len
           /\ old.len = old.cap
    /\ cap # old.cap => realloc = "ok"
    /\ realloc = "ok" =>
           /\ cap = (old.cap * 3) \div 2
           /\ LET grown == arraylist_resize(old, (old.cap * 3) \div 2, TRUE).list
              IN  /\ grown.len = old.len
                  /\ \A p \in 0 .. old.len - 1 : grown.data[p] = old.data[p]
           /\ \A p \in 0 .. index - 1 : data[p] = old.data[p]
           /\ \A p \in index .. old.len - 1 : data[p + 1] = old.data[p]
    /\ (IsAdd /\ old.len < old.cap) => realloc = "none" /\ cap = old.cap
    /\ (IsAdd /\ res = INDEX_OUT_OF_BOUNDS_ERROR) => realloc = "none" /\ cap = old.cap
    /\ (IsGet \/ IsSet \/ IsRemove) => realloc = "none" /\ cap = old.cap

\* C19's case: add_first grew a full list of marked and plain elements from
\* 10 to 15 slots.
C19_Witness ==
    /\ op = "add_first"
    /\ realloc = "ok"
    /\ old.cap = 10
    /\ cap = 15
    /\ old.data[0] # Plain
    /\ old.data[1] = Plain

\* C20: no call overruns the buffer.  In every add and remove made from a
\* reachable state every slot read or written has a position below the cap
\* in force when it is accessed: add moves data[index .. len-1] to
\* data[index+1 .. len] and stores at data[index], remove reads data[index]
\* and moves data[index+1 .. len-1] to data[index .. len-2]; every access of
\* get and set is at a position below len.
C20_NoOverrun ==
    /\ (IsAdd \/ IsRemove) => \A p \in reads \cup writes : 0 <= p /\ p < cap
    /\ (IsAdd /\ res = SUCCESS) =>
           /\ reads = index .. old.len - 1
           /\ writes = (index + 1 .. old.len) \cup {index}
    /\ (IsRemove /\ res = SUCCESS) =>
           /\ reads = {index} \cup (index + 1 .. old.len - 1)
           /\ writes = index .. old.len - 2
    /\ (IsGet \/ IsSet) => \A p \in reads \cup writes : 0 <= p /\ p < old.len
    /\ res # SUCCESS => reads = {} /\ writes = {}

\* C20's case: an add at the front of a full list wrote the slot just past
\* the old buffer, after growing it.
C20_Witness ==
    /\ op = "add"
    /\ index = 0
    /\ res = SUCCESS
    /\ realloc = "ok"
    /\ old.cap \in writes

\* C21: when get, set, remove, get_first, get_last, remove_first or
\* remove_last returns EMPTY_LIST_ERROR or INDEX_OUT_OF_BOUNDS_ERROR, the
\* caller's slot *out keeps the value it had before the call; it is written,
\* with the element that was at the index, exactly when the call returns
\* SUCCESS.
C21_OutOnlyOnSuccess ==
    (IsGet \/ IsSet \/ IsRemove) =>
        /\ res \in {EMPTY_LIST_ERROR, INDEX_OUT_OF_BOUNDS_ERROR} => out = old_out
        /\ res = SUCCESS => out = old.data[index]
        /\ out # old_out => res = SUCCESS

\* C21's case: a get past the end of a list of marked elements was rejected
\* and left a plain value in the slot, where the slot next to the last
\* element holds something else.
C21_Witness ==
    /\ op = "get"
    /\ res = INDEX_OUT_OF_BOUNDS_ERROR
    /\ index = old.len
    /\ old.data[index] # old_out
    /\ out = old_out
    /\ out = Plain

\* The smallest term of the sequence c, floor(1.5 * c), floor(1.5 * that), ...
\* that is at least h.
RECURSIVE CapTerm(_, _)
CapTerm(c, h) == IF c >= h THEN c ELSE CapTerm((c * 3) \div 2, h)

\* C22: in every state reachable from create() by add, remove, set and get
\* calls, cap is a function of the largest len the list has had: the smallest
\* term of 10, 15, 22, 33, ... that is at least that len; removals and failed
\* calls do not change which term it is.
C22_CapFollowsHighWater ==
    /\ cap = CapTerm(10, high)
    /\ cap \in {10, 15, 22, 33, 49}
    /\ high >= len
    /\ (IsRemove \/ res # SUCCESS) => cap = old.cap /\ cap = CapTerm(10, high)

\* C22's case: after three growths a removal left fewer elements than the
\* term before holds, and cap stayed at the term of the largest len.
C22_Witness ==
    /\ op = "remove"
    /\ res = SUCCESS
    /\ high = 23
    /\ len < 22
    /\ cap = 33

\* C23: a live list owns exactly one struct allocation and exactly one buffer
\* allocation at all times, the buffer list->data points to; a growth that
\* succeeds replaces the old buffer by a new one and does not leave the old
\* one live, a growth that fails keeps the old one live; destroy, called once
\* after any calls, releases both, leaves no allocation live and releases
\* nothing twice.
C23_OwnsStructAndBuffer ==
    /\ list = "valid" => live = {TheStruct, Buffer(bufgen)}
    /\ list = "null" => live = {}
    /\ realloc = "ok" =>
           /\ bufgen # old_buf
           /\ freed = <<Buffer(old_buf)>>
           /\ Buffer(old_buf) \notin live
    /\ realloc = "fail" =>
           /\ bufgen = old_buf
           /\ freed = <<>>
           /\ Buffer(old_buf) \in live
    /\ (op \notin {"create", "destroy"} /\ realloc = "none") =>
           /\ bufgen = old_buf
           /\ freed = <<>>
    /\ op = "destroy" =>
           /\ list = "dangling"
           /\ live = {}
           /\ freed = <<Buffer(old_buf), TheStruct>>
    /\ list = "dangling" => live = {}
    /\ \A i, j \in 1 .. Len(freed) : freed[i] = freed[j] => i = j

\* C23's case: destroy released a list whose buffer had been replaced by a
\* growth, after a removal.
C23_Witness ==
    /\ op = "destroy"
    /\ old.cap > INITIAL_CAP
    /\ old.len < INITIAL_CAP
    /\ bufgen # 0
    /\ live = {}

====
